---- MODULE Spec2Model ----
(***************************************************************************)
(* Model of bench_analysis/export_bench_to_csv.py: discovery of Criterion  *)
(* estimates files, normalisation into Records, and the deduplicating      *)
(* append to the historical CSV table.                                     *)
(*                                                                         *)
(* Text is held as TLA+ strings.  Point estimates are natural numbers of   *)
(* nanoseconds; a quotient is held exactly as num * 10^exp / den, and a    *)
(* value rounded to two decimals is held as its two-decimal text.          *)
(***************************************************************************)
EXTENDS Integers, Sequences, FiniteSets, TLC

VARIABLES tree, csv, pc, args, existing_ids, results, ret, out, runs, hist, overlapped

vars == <<tree, csv, pc, args, existing_ids, results, ret, out, runs, hist, overlapped>>

(***************************************************************************)
(* Python str operations                                                   *)
(***************************************************************************)
DigitChars == {"0", "1", "2", "3", "4", "5", "6", "7", "8", "9"}

CharAt(s, i) == SubSeq(s, i, i)

\* str.isdigit(): non-empty and every character a digit
IsDigit(s) == s # "" /\ \A i \in 1..Len(s) : CharAt(s, i) \in DigitChars

DigitVal(c) == CHOOSE d \in 0..9 : ToString(d) = c

RECURSIVE IntOf(_)
\* int(s) for a string of decimal digits
IntOf(s) ==
    IF s = "" THEN 0
    ELSE IntOf(SubSeq(s, 1, Len(s) - 1)) * 10 + DigitVal(CharAt(s, Len(s)))

RECURSIVE Split(_)
\* s.split('/')
Split(s) ==
    IF s = "" THEN <<"">>
    ELSE LET r == Split(Tail(s)) IN
         IF Head(s) = "/" THEN <<"">> \o r
         ELSE <<Head(s) \o Head(r)>> \o Tail(r)

\* sub in s
Contains(s, sub) ==
    \E i \in 1..(Len(s) - Len(sub) + 1) : SubSeq(s, i, i + Len(sub) - 1) = sub

TwoDigits(n) == IF n < 10 THEN "0" \o ToString(n) ELSE ToString(n)

RECURSIVE ZeroPad(_, _)
ZeroPad(s, w) == IF Len(s) >= w THEN s ELSE ZeroPad("0" \o s, w)

(***************************************************************************)
(* Exact quotients and the "%.2f" rendering                                *)
(***************************************************************************)
\* the value num * 10^exp / den
Quot(num, den, exp) == [num |-> num, den |-> den, exp |-> exp]

RECURSIVE Pow10(_)
Pow10(k) == IF k = 0 THEN 1 ELSE 10 * Pow10(k - 1)

\* q >= 10^k
AtLeastPow10(q, k) ==
    IF q.exp >= k THEN q.num * Pow10(q.exp - k) >= q.den
    ELSE q.num >= q.den * Pow10(k - q.exp)

\* q / 10^k
DivPow10(q, k) == Quot(q.num, q.den, q.exp - k)

RECURSIVE DivDigits(_, _, _)
\* the next k decimal digits of r / den, for r < den
DivDigits(r, den, k) ==
    IF k = 0 THEN ""
    ELSE ToString((r * 10) \div den) \o DivDigits((r * 10) % den, den, k - 1)

RECURSIVE DivRem(_, _, _)
\* the remainder left after those k digits
DivRem(r, den, k) == IF k = 0 THEN r ELSE DivRem((r * 10) % den, den, k - 1)

RECURSIVE Incr(_)
\* a decimal digit string plus one
Incr(s) ==
    IF s = "" THEN "1"
    ELSE LET init == SubSeq(s, 1, Len(s) - 1)
             last == DigitVal(CharAt(s, Len(s)))
         IN IF last = 9 THEN Incr(init) \o "0" ELSE init \o ToString(last + 1)

RECURSIVE StripZeros(_)
StripZeros(s) == IF Len(s) > 3 /\ Head(s) = "0" THEN StripZeros(Tail(s)) ELSE s

\* f"{q:.2f}": q rounded to two decimals (ties to even), as text
Fmt2(q) ==
    LET k      == q.exp + 2
        digits == ToString(q.num \div q.den) \o DivDigits(q.num % q.den, q.den, k)
        rem    == DivRem(q.num % q.den, q.den, k)
        odd    == DigitVal(CharAt(digits, Len(digits))) % 2 = 1
        up     == 2 * rem > q.den \/ (2 * rem = q.den /\ odd)
        h      == StripZeros(IF up THEN Incr(digits) ELSE digits)
    IN SubSeq(h, 1, Len(h) - 2) \o "." \o SubSeq(h, Len(h) - 1, Len(h))

(***************************************************************************)
(* Result files: JSON content and modification time                        *)
(***************************************************************************)
\* JSON values: objects, numbers, null; text json.load rejects
JObj(f)  == [t |-> "obj", f |-> f]
JNum(v)  == [t |-> "num", v |-> v]
JNull    == [t |-> "null"]
Invalid  == [t |-> "invalid"]
Raise    == [t |-> "raise"]
EmptyObj == JObj(<<>>)

Estimates(median, mean) ==
    JObj([median |-> JObj([point_estimate |-> JNum(median)]),
          mean   |-> JObj([point_estimate |-> JNum(mean)])])

\* a modification time: seconds since local midnight of 2024-01-01, microseconds
MTime(sec, usec) == [sec |-> sec, usec |-> usec]

File(content, mtime) == [t |-> "file", content |-> content, mtime |-> mtime]
Absent == [t |-> "absent"]

\* v.get(key, default); a value that is no dict has no get
DictGet(v, key, default) ==
    IF v.t # "obj" THEN Raise
    ELSE IF key \in DOMAIN v.f THEN v.f[key] ELSE default

\* data.get(name, {}).get("point_estimate", 0)
PointEstimate(data, name) ==
    LET m == DictGet(data, name, EmptyObj)
    IN IF m = Raise THEN Raise ELSE DictGet(m, "point_estimate", JNum(0))

Clock(sec) ==
    TwoDigits(sec \div 3600) \o TwoDigits((sec % 3600) \div 60) \o TwoDigits(sec % 60)

\* strftime("%Y%m%d_%H%M%S") of the modification time
get_run_id_from_file(file) == "20240101_" \o Clock(file.mtime.sec)

\* datetime.isoformat() of the modification time
IsoTimestamp(mtime) ==
    "2024-01-01T" \o TwoDigits(mtime.sec \div 3600) \o ":"
        \o TwoDigits((mtime.sec % 3600) \div 60) \o ":" \o TwoDigits(mtime.sec % 60)
        \o (IF mtime.usec = 0 THEN "" ELSE "." \o ZeroPad(ToString(mtime.usec), 6))

(***************************************************************************)
(* Throughput                                                              *)
(***************************************************************************)
NotApplicable == "N/A"

\* faulty variant: a time of 0 is shown as a rate of zero
format_throughput_zero_rate(ns, n) ==
    IF ns = 0 THEN [ops |-> Quot(0, 1, 0), pretty |-> Fmt2(Quot(0, 1, 0)) \o " ops/s"]
    ELSE LET ops_per_sec == Quot(n, ns, 9)
         IN [ops    |-> ops_per_sec,
             pretty |->
                IF AtLeastPow10(ops_per_sec, 9)
                    THEN Fmt2(DivPow10(ops_per_sec, 9)) \o " Gops/s"
                ELSE IF AtLeastPow10(ops_per_sec, 6)
                    THEN Fmt2(DivPow10(ops_per_sec, 6)) \o " Mops/s"
                ELSE IF AtLeastPow10(ops_per_sec, 3)
                    THEN Fmt2(DivPow10(ops_per_sec, 3)) \o " Kops/s"
                ELSE Fmt2(ops_per_sec) \o " ops/s"]

format_throughput(ns, n) ==
    IF ns = 0 THEN [ops |-> Quot(0, 1, 0), pretty |-> NotApplicable]
    ELSE LET ops_per_sec == Quot(n, ns, 9)
         IN [ops    |-> ops_per_sec,
             pretty |->
                IF AtLeastPow10(ops_per_sec, 9)
                    THEN Fmt2(DivPow10(ops_per_sec, 9)) \o " Gops/s"
                ELSE IF AtLeastPow10(ops_per_sec, 6)
                    THEN Fmt2(DivPow10(ops_per_sec, 6)) \o " Mops/s"
                ELSE IF AtLeastPow10(ops_per_sec, 3)
                    THEN Fmt2(DivPow10(ops_per_sec, 3)) \o " Kops/s"
                ELSE Fmt2(ops_per_sec) \o " ops/s"]

(***************************************************************************)
(* Record construction                                                     *)
(***************************************************************************)
\* parts[0]
Operation(test_name) == Head(Split(test_name))

\* parts[1] if len(parts) > 1 else "N/A"
Size(test_name) ==
    LET parts == Split(test_name) IN IF Len(parts) > 1 THEN parts[2] ELSE "N/A"

\* faulty variant: the operation count is always 1
SizeN_one(size) == 1

\* faulty variant: a size of value 0 counts as 1
SizeN_floor(size) == IF IsDigit(size) /\ IntOf(size) >= 1 THEN IntOf(size) ELSE 1

\* int(size) if size.isdigit() else 1
SizeN(size) == IF IsDigit(size) THEN IntOf(size) ELSE 1

\* the body of the try block once the file is open: the Record, or Raise
BuildRecord(file, bench_name, test_name, tag) ==
    LET data      == file.content
        median_ns == PointEstimate(data, "median")
        mean_ns   == PointEstimate(data, "mean")
        size      == Size(test_name)
    IN IF data = Invalid THEN Raise
       ELSE IF median_ns = Raise \/ mean_ns = Raise THEN Raise
       ELSE IF median_ns.t # "num" \/ mean_ns.t # "num" THEN Raise
       ELSE LET tp == format_throughput(median_ns.v, SizeN(size))
            IN [run_id             |-> get_run_id_from_file(file),
                benchmark          |-> bench_name,
                test_name          |-> test_name,
                operation          |-> Operation(test_name),
                size               |-> size,
                median_ns          |-> median_ns.v,
                mean_ns            |-> mean_ns.v,
                throughput_ops_sec |-> Fmt2(tp.ops),
                throughput_pretty  |-> tp.pretty,
                timestamp          |-> IsoTimestamp(file.mtime),
                tag                |-> tag]

\* file is what the path holds when it is read (Absent: it has gone)
process_estimates_file(file, bench_name, test_name, tag) ==
    IF file = Absent THEN <<>>
    ELSE LET rec == BuildRecord(file, bench_name, test_name, tag)
         IN IF rec = Raise THEN <<>> ELSE <<rec>>

\* the arguments of the calls of format_throughput that building the Record
\* makes: none when the file has gone, cannot be parsed, or a get fails
ThroughputCalls(file, test_name) ==
    IF file = Absent \/ file.content = Invalid THEN <<>>
    ELSE IF PointEstimate(file.content, "median") = Raise
            \/ PointEstimate(file.content, "mean") = Raise THEN <<>>
    ELSE <<[ns |-> PointEstimate(file.content, "median"),
            n  |-> SizeN(Size(test_name))]>>

(***************************************************************************)
(* The criterion directory                                                 *)
(***************************************************************************)
\* <root>/g/t/s/estimates.json when p = "", else <root>/g/t/p/s/estimates.json
Slot(g, t, p, s) == [g |-> g, t |-> t, p |-> p, s |-> s]

\* a tree maps the paths that hold a result file to that file
FileAt(tr, slot) == IF slot \in DOMAIN tr THEN tr[slot] ELSE Absent

\* what the path holds when it is opened: nothing, if it has gone meanwhile
ReadAt(tr, slot, gone) == IF slot \in gone THEN Absent ELSE FileAt(tr, slot)

GroupingDir(tr, g) == \E x \in DOMAIN tr : x.g = g
TestDir(tr, g, t) == \E x \in DOMAIN tr : x.g = g /\ x.t = t
ParamDir(tr, g, t, p) == \E x \in DOMAIN tr : x.g = g /\ x.t = t /\ x.p = p

RECURSIVE WalkParams_break(_, _, _, _, _, _, _)
\* faulty variant: a result file that yields no Record ends the loop
WalkParams_break(tr, g, t, ps, source, tag, gone) ==
    IF ps = <<>> THEN <<>>
    ELSE LET p    == Head(ps)
             slot == Slot(g, t, p, source)
             found == ParamDir(tr, g, t, p) /\ FileAt(tr, slot) # Absent
             here == IF found
                     THEN process_estimates_file(ReadAt(tr, slot, gone), g,
                                                 t \o "/" \o p, tag)
                     ELSE <<>>
         IN IF found /\ here = <<>> THEN <<>>
            ELSE here \o WalkParams_break(tr, g, t, Tail(ps), source, tag, gone)

RECURSIVE WalkParams(_, _, _, _, _, _, _)
\* for param_dir in test_dir.iterdir(), listed in the order ps
WalkParams(tr, g, t, ps, source, tag, gone) ==
    IF ps = <<>> THEN <<>>
    ELSE LET p    == Head(ps)
             slot == Slot(g, t, p, source)
             here == IF ParamDir(tr, g, t, p) /\ FileAt(tr, slot) # Absent
                     THEN process_estimates_file(ReadAt(tr, slot, gone), g,
                                                 t \o "/" \o p, tag)
                     ELSE <<>>
         IN here \o WalkParams(tr, g, t, Tail(ps), source, tag, gone)

\* faulty variant: the parameter directories are probed after a two-level match too
VisitTest_both(tr, g, t, ord, source, tag, gone) ==
    LET slot == Slot(g, t, "", source)
    IN (IF FileAt(tr, slot) # Absent
        THEN process_estimates_file(ReadAt(tr, slot, gone), g, t, tag)
        ELSE <<>>)
       \o WalkParams(tr, g, t, ord.p, source, tag, gone)

\* the body of the loop over test directories
VisitTest(tr, g, t, ord, source, tag, gone) ==
    LET slot == Slot(g, t, "", source)
    IN IF FileAt(tr, slot) # Absent
       THEN process_estimates_file(ReadAt(tr, slot, gone), g, t, tag)
       ELSE WalkParams(tr, g, t, ord.p, source, tag, gone)

RECURSIVE WalkTests(_, _, _, _, _, _, _)
WalkTests(tr, g, ts, ord, source, tag, gone) ==
    IF ts = <<>> THEN <<>>
    ELSE (IF TestDir(tr, g, Head(ts))
          THEN VisitTest(tr, g, Head(ts), ord, source, tag, gone)
          ELSE <<>>)
         \o WalkTests(tr, g, Tail(ts), ord, source, tag, gone)

RECURSIVE WalkGroupings(_, _, _, _, _, _, _)
WalkGroupings(tr, gs, ord, source, bench_filter, tag, gone) ==
    IF gs = <<>> THEN <<>>
    ELSE LET g == Head(gs)
         IN (IF ~GroupingDir(tr, g) THEN <<>>
             ELSE IF bench_filter # "" /\ ~Contains(g, bench_filter) THEN <<>>
             ELSE WalkTests(tr, g, ord.t, ord, source, tag, gone))
            \o WalkGroupings(tr, Tail(gs), ord, source, bench_filter, tag, gone)

\* ord: the order in which iterdir lists each level; gone: the result files
\* that disappear between their discovery and their read
parse_benchmark_results(tr, source, bench_filter, tag, ord, gone) ==
    WalkGroupings(tr, ord.g, ord, source, bench_filter, tag, gone)

(***************************************************************************)
(* The historical table                                                    *)
(***************************************************************************)
fieldnames ==
    <<"run_id", "benchmark", "test_name", "operation", "size",
      "median_ns", "mean_ns", "throughput_ops_sec", "throughput_pretty",
      "timestamp", "tag">>

\* the destination: whether the file exists, and its lines (each a tuple of cells)
Csv(exists, lines) == [exists |-> exists, lines |-> lines]

\* the text csv.writer puts in a cell
Cell(name, result) ==
    IF name \in {"median_ns", "mean_ns"} THEN ToString(result[name]) ELSE result[name]

\* DictWriter.writerow: the cells in fieldnames order
Row(result) == [i \in 1..Len(fieldnames) |-> Cell(fieldnames[i], result)]

\* DictReader's row.get(name, ''): the cell under the header cell name
RowGet(header, row, name) ==
    IF \E i \in 1..Len(header) : header[i] = name
    THEN LET i == CHOOSE j \in 1..Len(header) : header[j] = name
         IN IF i <= Len(row) THEN row[i] ELSE "None"
    ELSE ""

\* faulty variants: the key read from the benchmark column; the destination never read
load_from_benchmark_column(dest) ==
    IF ~dest.exists \/ dest.lines = <<>> THEN {}
    ELSE LET header == Head(dest.lines)
         IN {RowGet(header, dest.lines[i], "run_id") \o ":"
                \o RowGet(header, dest.lines[i], "benchmark") : i \in 2..Len(dest.lines)}

load_nothing(dest) == {}

load_existing_run_ids(dest) ==
    IF ~dest.exists \/ dest.lines = <<>> THEN {}
    ELSE LET header == Head(dest.lines)
         IN {RowGet(header, dest.lines[i], "run_id") \o ":"
                \o RowGet(header, dest.lines[i], "test_name") : i \in 2..Len(dest.lines)}

\* faulty variant: the key is the run_id alone
Key_run_id_only(result) == result.run_id

Key(result) == result.run_id \o ":" \o result.test_name

IsDuplicate(result, known) == Key(result) \in known

RECURSIVE FilterDuplicates_noadd(_, _)
\* faulty variant: the keys of this batch are not tracked
FilterDuplicates_noadd(rs, known) ==
    IF rs = <<>> THEN [new_results |-> <<>>, skipped |-> 0, existing_ids |-> known]
    ELSE LET rest == FilterDuplicates_noadd(Tail(rs), known)
         IN IF IsDuplicate(Head(rs), known)
            THEN [rest EXCEPT !.skipped = @ + 1]
            ELSE [rest EXCEPT !.new_results = <<Head(rs)>> \o @]

RECURSIVE FilterDuplicates(_, _)
\* the loop over results: the new ones, the number skipped, the grown key set
FilterDuplicates(rs, known) ==
    IF rs = <<>> THEN [new_results |-> <<>>, skipped |-> 0, existing_ids |-> known]
    ELSE IF IsDuplicate(Head(rs), known)
         THEN LET rest == FilterDuplicates(Tail(rs), known)
              IN [rest EXCEPT !.skipped = @ + 1]
         ELSE LET rest == FilterDuplicates(Tail(rs), known \cup {Key(Head(rs))})
              IN [rest EXCEPT !.new_results = <<Head(rs)>> \o @]

\* faulty variant: the size of the file is not looked at
FileExists_no_size(dest) == dest.exists

\* file_exists = csv_path.exists() and csv_path.stat().st_size > 0
FileExists(dest) == dest.exists /\ dest.lines # <<>>

\* faulty variant: the file is opened with 'w'
AppendRows_truncate(dest, new_results) ==
    Csv(TRUE, <<fieldnames>> \o [i \in 1..Len(new_results) |-> Row(new_results[i])])

\* open(csv_path, 'a'); writeheader() if needed; writerows(new_results)
AppendRows(dest, new_results) ==
    Csv(TRUE, dest.lines
              \o (IF ~FileExists(dest) THEN <<fieldnames>> ELSE <<>>)
              \o [i \in 1..Len(new_results) |-> Row(new_results[i])])

\* faulty variant: the number of records looked at is returned
Returned_total(new_results, skipped) == <<Len(new_results) + skipped>>

\* what export_to_csv returns: ret holds the returned values
Returned(new_results, skipped) == <<Len(new_results)>>

export_to_csv(rs, dest, known) ==
    IF rs = <<>>
    THEN [ret |-> <<0>>, csv |-> dest, existing_ids |-> known,
          out |-> <<"No new results to export">>]
    ELSE LET f == FilterDuplicates(rs, known)
         IN IF f.new_results = <<>>
            THEN [ret |-> <<0>>, csv |-> dest, existing_ids |-> f.existing_ids,
                  out |-> <<"No new results found (skipped "
                            \o ToString(f.skipped) \o " duplicates)">>]
            ELSE [ret |-> Returned(f.new_results, f.skipped),
                  csv |-> AppendRows(dest, f.new_results),
                  existing_ids |-> f.existing_ids,
                  out |-> <<"Exported " \o ToString(Len(f.new_results))
                            \o " new results">>
                          \o (IF f.skipped > 0
                              THEN <<"  Skipped " \o ToString(f.skipped)
                                     \o " duplicate results">>
                              ELSE <<>>)]

(***************************************************************************)
(* Bounds and input universes                                              *)
(***************************************************************************)
MaxFiles == 2
MaxBatch == 2
MaxRuns  == 2

GroupingNames == {"compare_get", "compare_put"}
TestNames     == {"insert", "get"}
ParamNames    == {"100", "big"}
Sources       == {"new", "base"}

\* the paths at which the model may hold a result file
Slots ==
    {Slot("compare_get", "insert", p, "new") : p \in ParamNames \cup {""}}
    \cup {Slot("compare_get", "get", "", "new"),
          Slot("compare_put", "insert", "", "new"),
          Slot("compare_put", "insert", "100", "new"),
          Slot("compare_get", "insert", "", "base")}

\* the paths and files of the runs of the whole pipeline
PipeSlots ==
    {Slot("compare_get", "insert", "", "new"),
     Slot("compare_get", "insert", "100", "new"),
     Slot("compare_put", "insert", "100", "new"),
     Slot("compare_get", "get", "", "base")}

Noon      == MTime(43200, 0)
NoonLater == MTime(43201, 0)

\* well-formed files, and files that are unparseable, lack the nesting,
\* or omit the median
FileUniverse ==
    {File(Estimates(500, 520), Noon),
     File(Estimates(500, 520), NoonLater),
     File(Invalid, Noon),
     File(JObj([median |-> JNum(5)]), Noon),
     File(JObj([mean |-> JObj([point_estimate |-> JNum(520)])]), Noon)}

RECURSIVE SubsetsUpTo(_, _)
SubsetsUpTo(S, k) ==
    IF k = 0 THEN {{}}
    ELSE LET smaller == SubsetsUpTo(S, k - 1)
         IN smaller \cup {X \cup {x} : X \in smaller, x \in S}

PipeFiles ==
    {File(Estimates(500, 520), Noon),
     File(Estimates(500, 520), NoonLater),
     File(Invalid, Noon)}

TreesOver(S, F) == UNION {[D -> F] : D \in SubsetsUpTo(S, MaxFiles)}

Trees == TreesOver(Slots, FileUniverse)

PipeTrees == TreesOver(PipeSlots, PipeFiles)

Perms(S) ==
    {q \in [1..Cardinality(S) -> S] : \A x \in S : \E i \in DOMAIN q : q[i] = x}

Orders == [g : Perms(GroupingNames), t : Perms(TestNames), p : Perms(ParamNames)]

\* argparse defaults: --tag "", --source new, no --bench
DefaultArgs == [source |-> "new", bench |-> "", tag |-> ""]

ArgSets == [source : Sources, bench : {"", "get"}, tag : {"", "v2"}]

\* Records a caller may hand to the sink
SinkRecords ==
    {BuildRecord(File(Estimates(500, 520), m), "compare_get", tn, ""):
        m \in {Noon, NoonLater}, tn \in {"insert/100", "get"}}
    \cup {BuildRecord(File(Estimates(400, 410), Noon), "compare_put", "insert/100", "v2")}

RECURSIVE SeqsUpTo(_, _)
SeqsUpTo(S, k) ==
    IF k = 0 THEN {<<>>}
    ELSE LET shorter == SeqsUpTo(S, k - 1)
         IN shorter \cup {<<x>> \o q : x \in S, q \in shorter}

Batches == SeqsUpTo(SinkRecords, MaxBatch)

\* the Records two concurrent callers hand to the sink
ConcRecords ==
    {BuildRecord(File(Estimates(500, 520), Noon), "compare_get", "insert/100", tag):
        tag \in {"", "v2"}}

ConcBatches == SeqsUpTo(ConcRecords, MaxBatch)

Procs == {"A", "B"}

NoRun == [valid |-> FALSE]

\* test identities and result files handed to process_estimates_file alone
MaxCount == 3

RecordNames ==
    {"insert", "insert/", "insert/0", "insert/00", "insert/7", "insert/100",
     "insert/big", "insert/100/x"}

MedianTimes == {0, 1, 3, 500, 300000, 1500000}

RecordFiles ==
    {File(Estimates(m, 520), Noon) : m \in MedianTimes}
    \cup {File(JObj([mean |-> JObj([point_estimate |-> JNum(520)])]), Noon),
          File(JObj([median |-> EmptyObj,
                     mean   |-> JObj([point_estimate |-> JNum(520)])]), Noon),
          File(JObj([median |-> JObj([point_estimate |-> JNull]),
                     mean   |-> JObj([point_estimate |-> JNum(520)])]), Noon),
          File(EmptyObj, Noon),
          File(Invalid, Noon),
          Absent}

\* operation counts handed to format_throughput alone
Counts == 0..MaxCount \cup {100, 1000}

(***************************************************************************)
(* Invocations: main() loads the keys, discovers, exports                  *)
(***************************************************************************)
InitCommon ==
    /\ csv \in {Csv(FALSE, <<>>), Csv(TRUE, <<>>)}
    /\ pc = [p \in Procs |-> "idle"]
    /\ args = [p \in Procs |-> DefaultArgs]
    /\ existing_ids = [p \in Procs |-> {}]
    /\ results = [p \in Procs |-> <<>>]
    /\ ret = [p \in Procs |-> <<>>]
    /\ out = [p \in Procs |-> <<>>]
    /\ runs = 0
    /\ hist = [start |-> <<>>, prev |-> NoRun]
    /\ overlapped = FALSE

\* a process starts main(): arguments parsed, existing keys loaded
Invoke(p, a, track) ==
    /\ pc[p] \in {"idle", "done"}
    /\ runs' = runs + 1
    /\ pc' = [pc EXCEPT ![p] = "loaded"]
    /\ args' = [args EXCEPT ![p] = a]
    /\ existing_ids' = [existing_ids EXCEPT ![p] = load_existing_run_ids(csv)]
    /\ results' = [results EXCEPT ![p] = <<>>]
    /\ ret' = [ret EXCEPT ![p] = <<>>]
    /\ out' = [out EXCEPT ![p] = <<>>]
    /\ hist' = IF ~track THEN hist
               ELSE [start |-> tree,
                     prev  |-> IF pc[p] = "done"
                               THEN [valid |-> TRUE, tree |-> hist.start,
                                     source |-> args[p].source, bench |-> args[p].bench,
                                     csv |-> csv]
                               ELSE NoRun]
    /\ overlapped' = (overlapped \/ \E q \in Procs \ {p} : pc[q] \in {"loaded", "parsed"})
    /\ UNCHANGED <<tree, csv>>

\* at most one result file disappears during a walk
GoneSets(tr, source) == {{}} \cup {{x} : x \in {y \in DOMAIN tr : y.s = source}}

Parse(p) ==
    /\ pc[p] = "loaded"
    /\ \E ord \in Orders, gone \in GoneSets(tree, args[p].source) :
          /\ results' = [results EXCEPT ![p] =
                parse_benchmark_results(tree, args[p].source, args[p].bench,
                                        args[p].tag, ord, gone)]
          /\ tree' = [x \in DOMAIN tree \ gone |-> tree[x]]
    /\ pc' = [pc EXCEPT ![p] = "parsed"]
    /\ UNCHANGED <<csv, args, existing_ids, ret, out, runs, hist, overlapped>>

\* discovery seen from the sink: any batch of Records
Discover(p, batches) ==
    /\ pc[p] = "loaded"
    /\ \E b \in batches : results' = [results EXCEPT ![p] = b]
    /\ pc' = [pc EXCEPT ![p] = "parsed"]
    /\ UNCHANGED <<tree, csv, args, existing_ids, ret, out, runs, hist, overlapped>>

Export(p) ==
    /\ pc[p] = "parsed"
    /\ LET r == export_to_csv(results[p], csv, existing_ids[p])
       IN /\ csv' = r.csv
          /\ existing_ids' = [existing_ids EXCEPT ![p] = r.existing_ids]
          /\ ret' = [ret EXCEPT ![p] = r.ret]
          /\ out' = [out EXCEPT ![p] = r.out]
    /\ pc' = [pc EXCEPT ![p] = "done"]
    /\ UNCHANGED <<tree, args, results, runs, hist, overlapped>>

\* main(): "if not results: return" before the export
MainNoResults(p) ==
    /\ pc[p] = "parsed"
    /\ results[p] = <<>>
    /\ out' = [out EXCEPT ![p] = <<"No benchmark results found.">>]
    /\ pc' = [pc EXCEPT ![p] = "done"]
    /\ UNCHANGED <<tree, csv, args, existing_ids, results, ret, runs, hist, overlapped>>

MainExport(p) == results[p] # <<>> /\ Export(p)

\* the sink under sequential invocations, with any batches
Init == tree = <<>> /\ InitCommon
SinkInvoke == runs < MaxRuns /\ Invoke("A", DefaultArgs, FALSE)
SinkDiscover == Discover("A", Batches)
SinkExport == Export("A")
Next == SinkInvoke \/ SinkDiscover \/ SinkExport
Spec == Init /\ [][Next]_vars

\* one walk over a criterion directory
InitWalk == tree \in Trees /\ InitCommon /\ ~csv.exists
WalkInvoke == \E a \in ArgSets : pc["A"] = "idle" /\ a.tag = "" /\ Invoke("A", a, TRUE)
WalkParse == Parse("A")
NextWalk == WalkInvoke \/ WalkParse
SpecWalk == InitWalk /\ [][NextWalk]_vars

\* the whole pipeline, run and then run again with the same source and filter
InitPipe == tree \in PipeTrees /\ InitCommon
PipeInvoke ==
    \E a \in ArgSets :
        /\ \/ pc["A"] = "idle" /\ a.tag = ""
           \/ /\ pc["A"] = "done" /\ ~hist.prev.valid
              /\ a.source = args["A"].source /\ a.bench = args["A"].bench
        /\ Invoke("A", a, TRUE)
PipeParse == Parse("A")
PipeExport == MainExport("A")
PipeNoResults == MainNoResults("A")
NextPipe == PipeInvoke \/ PipeParse \/ PipeExport \/ PipeNoResults
SpecPipe == InitPipe /\ [][NextPipe]_vars

\* two invocations against one destination, not serialized
ConcInvoke == \E p \in Procs : runs < MaxRuns /\ Invoke(p, DefaultArgs, FALSE)
ConcDiscover == \E p \in Procs : Discover(p, ConcBatches)
ConcExport == \E p \in Procs : Export(p)
NextConc == ConcInvoke \/ ConcDiscover \/ ConcExport
SpecConc == Init /\ [][NextConc]_vars

\* the Record builder and the throughput calculator, each called alone
InitRecord == tree = <<>> /\ InitCommon /\ ~csv.exists

RecordBuild ==
    /\ pc["A"] = "idle"
    /\ \E test_name \in RecordNames, file \in RecordFiles, tag \in {"", "v2"} :
          /\ args' = [args EXCEPT !["A"] =
                [test_name |-> test_name, file |-> file, tag |-> tag]]
          /\ results' = [results EXCEPT !["A"] =
                process_estimates_file(file, "compare_get", test_name, tag)]
          /\ hist' = [start |-> hist.start, prev |-> hist.prev,
                       calls |-> ThroughputCalls(file, test_name)]
    /\ pc' = [pc EXCEPT !["A"] = "built"]
    /\ UNCHANGED <<tree, csv, existing_ids, ret, out, runs, overlapped>>

ThroughputCall ==
    /\ pc["A"] = "idle"
    /\ \E ns \in MedianTimes, n \in Counts :
          /\ args' = [args EXCEPT !["A"] = [ns |-> ns, n |-> n]]
          /\ ret' = [ret EXCEPT !["A"] = <<format_throughput(ns, n)>>]
    /\ pc' = [pc EXCEPT !["A"] = "computed"]
    /\ UNCHANGED <<tree, csv, existing_ids, results, out, runs, hist, overlapped>>

NextRecord == RecordBuild \/ ThroughputCall
SpecRecord == InitRecord /\ [][NextRecord]_vars

(***************************************************************************)
(* Properties                                                              *)
(***************************************************************************)
\* the identity key of a Record, and of a data row (columns run_id, test_name)
PairOf(r) == <<r.run_id, r.test_name>>
RowPair(line) == <<line[1], line[3]>>

IsData(line) == line # fieldnames
DataRows(dest) == SelectSeq(dest.lines, IsData)
TablePairs(dest) == {RowPair(DataRows(dest)[i]) : i \in 1..Len(DataRows(dest))}
HasDuplicateRows(dest) ==
    \E i, j \in 1..Len(DataRows(dest)) :
        i < j /\ RowPair(DataRows(dest)[i]) = RowPair(DataRows(dest)[j])

\* the elements of rs at the positions in I, in order
Pick(rs, I) ==
    LET f[k \in 0..Len(rs)] ==
            IF k = 0 THEN <<>>
            ELSE IF k \in I THEN Append(f[k - 1], rs[k]) ELSE f[k - 1]
    IN f[Len(rs)]

\* the positions of a batch that carry a pair neither in pairs nor carried earlier
NewIdx(rs, pairs) ==
    {i \in 1..Len(rs) :
        /\ PairOf(rs[i]) \notin pairs
        /\ \A j \in 1..(i - 1) : PairOf(rs[j]) # PairOf(rs[i])}

NewRecords(rs, dest) == Pick(rs, NewIdx(rs, TablePairs(dest)))

RowsOf(rs) == [i \in 1..Len(rs) |-> Row(rs[i])]

IsPrefix(a, b) == Len(a) <= Len(b) /\ SubSeq(b, 1, Len(a)) = a

Added(dest, dest2) == SubSeq(dest2.lines, Len(dest.lines) + 1, Len(dest2.lines))

\* process p runs export_to_csv in this step
ExportStep(p) == pc[p] = "parsed" /\ pc'[p] = "done" /\ ret'[p] # <<>>

\* C1: with the result files, the source and the filter unchanged over both
\* runs, the second run of the pipeline writes nothing: the destination is
\* as the first run left it, and export_to_csv (called unless nothing was
\* discovered) returns 0.
C1_Idempotent ==
    (/\ pc["A"] = "done"
     /\ hist.prev.valid
     /\ hist.prev.tree = tree
     /\ hist.prev.source = args["A"].source
     /\ hist.prev.bench = args["A"].bench)
    => /\ csv = hist.prev.csv
       /\ IF results["A"] = <<>> THEN ret["A"] = <<>> ELSE ret["A"] = <<0>>

\* C1 witness: the second run over unchanged files, under another tag, found
\* Records and skipped them all; the first run had written rows
C1_Witness ==
    /\ pc["A"] = "done" /\ hist.prev.valid /\ hist.prev.tree = tree
    /\ args["A"].tag = "v2"
    /\ results["A"] # <<>> /\ ret["A"] = <<0>>
    /\ Len(csv.lines) >= 3

\* C2: under serialized invocations no two data rows of the table carry the
\* same (run_id, test_name) pair.
C2_UniqueKeys == ~HasDuplicateRows(csv)

\* C2 witness: a second invocation has exported a batch that repeats a key
\* internally, onto a table that already held rows
C2_Witness ==
    /\ pc["A"] = "done" /\ runs = 2
    /\ Len(results["A"]) = 2
    /\ PairOf(results["A"][1]) = PairOf(results["A"][2])
    /\ ret["A"] = <<1>>
    /\ Len(csv.lines) >= 3

\* C3: the table is empty or starts with its only header line; an export
\* with no new record leaves the destination as it was (not even created);
\* the first export with N >= 1 new records writes the header and N rows;
\* an export onto a populated table writes rows only.
C3_HeaderShape ==
    \/ csv.lines = <<>>
    \/ /\ Head(csv.lines) = fieldnames
       /\ \A i \in 2..Len(csv.lines) : csv.lines[i] # fieldnames

C3_HeaderStep ==
    \A p \in Procs :
        ExportStep(p) =>
            LET n == Len(NewRecords(results[p], csv))
            IN /\ n = 0 => csv' = csv
               /\ (n >= 1 /\ csv.lines = <<>>) =>
                     /\ csv'.exists
                     /\ Len(csv'.lines) = n + 1
                     /\ Head(csv'.lines) = fieldnames
                     /\ \A i \in 2..(n + 1) : csv'.lines[i] # fieldnames
               /\ (n >= 1 /\ csv.lines # <<>>) =>
                     /\ Len(csv'.lines) = Len(csv.lines) + n
                     /\ \A i \in 1..n : Added(csv, csv')[i] # fieldnames

C3_HeaderOnce == [](C3_HeaderShape) /\ [][C3_HeaderStep]_vars

\* C3 witness: a second export has added rows to a populated table
C3_Witness ==
    /\ pc["A"] = "done" /\ runs = 2
    /\ ret["A"] # <<>> /\ ret["A"][1] >= 1
    /\ Len(csv.lines) > 1 + ret["A"][1]

\* C4: an export leaves the lines already in the destination as a prefix of
\* its new content, and the data rows it adds are the rows of the batch's
\* new Records, in input order.
C4_AppendStep ==
    \A p \in Procs :
        ExportStep(p) =>
            /\ IsPrefix(csv.lines, csv'.lines)
            /\ SelectSeq(Added(csv, csv'), IsData) = RowsOf(NewRecords(results[p], csv))

C4_AppendOnly == [][C4_AppendStep]_vars

\* C4 witness: an export onto a populated table has skipped one Record of
\* its batch as a duplicate and written the rest, the last Record last
C4_Witness ==
    /\ pc["A"] = "done"
    /\ Len(results["A"]) >= 2
    /\ ret["A"] = <<Len(results["A"]) - 1>>
    /\ Len(csv.lines) > 1 + ret["A"][1]
    /\ csv.lines[Len(csv.lines)] = Row(results["A"][Len(results["A"])])

\* C5: the loop of export_to_csv skips exactly the Records whose
\* (run_id, test_name) pair is in a row of the destination or was carried by
\* an earlier Record of the batch, whatever their other fields.
C5_KeyOnly ==
    \A p \in Procs :
        pc[p] = "parsed" =>
            LET f    == FilterDuplicates(results[p], existing_ids[p])
                news == NewRecords(results[p], csv)
            IN /\ f.new_results = news
               /\ f.skipped = Len(results[p]) - Len(news)

\* C5 witness: the batch holds a Record whose pair is in the table while its
\* row is not (other fields differ), and a Record that shares its test_name
\* with a row but not its run_id
C5_Witness ==
    /\ pc["A"] = "parsed"
    /\ \E i, j \in 1..Len(results["A"]) :
          /\ PairOf(results["A"][i]) \in TablePairs(csv)
          /\ \A k \in 1..Len(csv.lines) : csv.lines[k] # Row(results["A"][i])
          /\ PairOf(results["A"][j]) \notin TablePairs(csv)
          /\ \E k \in 1..Len(DataRows(csv)) :
                DataRows(csv)[k][3] = results["A"][j].test_name

\* C6 as claimed: the caller receives the count written and the count skipped
C6_ReturnsBothStep ==
    \A p \in Procs :
        ExportStep(p) =>
            LET n == Len(NewRecords(results[p], csv))
            IN ret'[p] = <<n, Len(results[p]) - n>>

C6_ReturnsBoth == [][C6_ReturnsBothStep]_vars

\* C6 amended: the caller receives the count written alone; the count
\* skipped is only printed, and only when the batch is not empty and either
\* nothing was written or something was skipped.
C6_ReturnsWrittenStep ==
    \A p \in Procs :
        ExportStep(p) =>
            LET n == Len(NewRecords(results[p], csv))
                d == Len(results[p]) - n
            IN /\ ret'[p] = <<n>>
               /\ (results[p] # <<>> /\ n = 0) =>
                     out'[p] = <<"No new results found (skipped " \o ToString(d)
                                 \o " duplicates)">>
               /\ (n > 0 /\ d > 0) =>
                     /\ Len(out'[p]) = 2
                     /\ out'[p][2] = "  Skipped " \o ToString(d) \o " duplicate results"
               /\ (results[p] = <<>> \/ (n > 0 /\ d = 0)) => Len(out'[p]) = 1

C6_ReturnsWritten == [][C6_ReturnsWrittenStep]_vars

\* C6 witness: an export that wrote one Record and skipped another
C6_Witness ==
    /\ pc["A"] = "done"
    /\ Len(results["A"]) = 2
    /\ ret["A"] = <<1>>
    /\ Len(out["A"]) = 2

\* the walk of process A is over; it began on WalkTree with WalkArgs
WalkDone == pc["A"] = "parsed"
WalkTree == hist.start
WalkArgs == args["A"]

\* the walk enters the test directory g/t
Visited(g, t) ==
    /\ \E x \in DOMAIN WalkTree : x.g = g /\ x.t = t
    /\ WalkArgs.bench = "" \/ Contains(g, WalkArgs.bench)

\* a result file was at the path when the walk began; it is still there
Held(slot) == slot \in DOMAIN WalkTree
Kept(slot) == slot \in DOMAIN tree

\* the point estimate under key k is a number, or defaults to one
NumberAt(content, k) ==
    \/ k \notin DOMAIN content.f
    \/ /\ content.f[k].t = "obj"
       /\ \/ "point_estimate" \notin DOMAIN content.f[k].f
          \/ content.f[k].f["point_estimate"].t = "num"

WellFormed(file) ==
    /\ file.content.t = "obj"
    /\ NumberAt(file.content, "median")
    /\ NumberAt(file.content, "mean")

\* the Records of the walk with this grouping and test identity
Named(g, name) ==
    LET Is(r) == r.benchmark = g /\ r.test_name = name
    IN SelectSeq(results["A"], Is)

\* the Records of the walk that come from the test directory g/t
RecordsOf(g, t) ==
    LET Is(r) == r.benchmark = g
                 /\ r.test_name \in {t} \cup {t \o "/" \o p : p \in ParamNames}
    IN SelectSeq(results["A"], Is)

\* C7 as claimed: a test directory whose two-level file exists contributes
\* exactly one Record, named after the directory; otherwise Records named
\* <test>/<parameter> only (stated for walks during which no file has gone)
C7_ExactlyOne ==
    (WalkDone /\ tree = WalkTree) =>
        \A g \in GroupingNames, t \in TestNames :
            Visited(g, t) =>
                IF Held(Slot(g, t, "", WalkArgs.source))
                THEN /\ Len(RecordsOf(g, t)) = 1
                     /\ RecordsOf(g, t)[1].test_name = t
                ELSE /\ Named(g, t) = <<>>
                     /\ \A p \in ParamNames : Len(Named(g, t \o "/" \o p)) <= 1

\* C7 amended: a test directory whose two-level file exists contributes one
\* Record, named after the directory, when that file is read and is well
\* formed, and none otherwise; in both cases no Record comes from its
\* parameter directories.  Only when the two-level file is absent does it
\* contribute at most one Record per parameter directory that holds a result
\* file, named <test>/<parameter>.
C7_TwoLevelExcludes ==
    WalkDone =>
        \A g \in GroupingNames, t \in TestNames :
            Visited(g, t) =>
                LET shallow == Slot(g, t, "", WalkArgs.source)
                IN IF Held(shallow)
                   THEN /\ \A p \in ParamNames : Named(g, t \o "/" \o p) = <<>>
                        /\ Len(Named(g, t)) =
                              IF Kept(shallow) /\ WellFormed(WalkTree[shallow])
                              THEN 1 ELSE 0
                   ELSE /\ Named(g, t) = <<>>
                        /\ \A p \in ParamNames :
                              /\ Len(Named(g, t \o "/" \o p)) <= 1
                              /\ ~Held(Slot(g, t, p, WalkArgs.source))
                                    => Named(g, t \o "/" \o p) = <<>>

\* C7 witness: a test directory held a well-formed two-level file and a
\* well-formed file in a parameter directory; the walk returned one Record
C7_Witness ==
    /\ WalkDone
    /\ \E g \in GroupingNames, t \in TestNames, p \in ParamNames :
          /\ Visited(g, t)
          /\ Held(Slot(g, t, "", WalkArgs.source))
          /\ Held(Slot(g, t, p, WalkArgs.source))
          /\ WellFormed(WalkTree[Slot(g, t, "", WalkArgs.source)])
          /\ WellFormed(WalkTree[Slot(g, t, p, WalkArgs.source)])
          /\ Len(RecordsOf(g, t)) = 1
          /\ RecordsOf(g, t)[1].test_name = t

\* C8: two rows with the same (run_id, test_name) are in the table only if
\* an invocation loaded the keys while another had loaded them and not yet
\* appended.
C8_DuplicatesOnlyWhenOverlapped == HasDuplicateRows(csv) => overlapped

\* C8 witness: unserialized invocations have left a duplicate in the table
C8_Witness == HasDuplicateRows(csv)

\* the result files the walk reads: under the chosen source, in a grouping
\* that passes the filter, at the two-level path or, when the test directory
\* holds no two-level file, at a three-level path
Discovered(x) ==
    /\ Held(x)
    /\ x.s = WalkArgs.source
    /\ WalkArgs.bench = "" \/ Contains(x.g, WalkArgs.bench)
    /\ x.p = "" \/ ~Held(Slot(x.g, x.t, "", x.s))

NameOf(x) == IF x.p = "" THEN x.t ELSE x.t \o "/" \o x.p

YieldsRecord(x) == Kept(x) /\ WellFormed(WalkTree[x])

\* C9: when the walk has returned, each result file it read has yielded its
\* Record if it is well formed and was still there, and nothing otherwise,
\* whatever the other files are and wherever they lie; a file that cannot
\* be read or parsed takes no other file's Record away.
C9_ResilientWalk ==
    WalkDone =>
        /\ \A x \in Slots :
              Discovered(x) =>
                  Len(Named(x.g, NameOf(x))) = IF YieldsRecord(x) THEN 1 ELSE 0
        /\ Len(results["A"]) =
              Cardinality({x \in Slots : Discovered(x) /\ YieldsRecord(x)})

\* C9 witness: the walk read a file that yields nothing (malformed, or gone
\* before the read) and a well-formed one, and returned the latter's Record
C9_Witness ==
    /\ WalkDone
    /\ \E x, y \in Slots :
          /\ Discovered(x) /\ ~YieldsRecord(x)
          /\ Discovered(y) /\ YieldsRecord(y)
          /\ Len(Named(y.g, NameOf(y))) = 1

\* the scenario: compare_get/insert/100/new/estimates.json alone, with
\* median 500 and mean 520, walked with source new
ScenarioSlot == Slot("compare_get", "insert", "100", "new")

C10_Scenario ==
    /\ WalkDone
    /\ tree = WalkTree
    /\ DOMAIN WalkTree = {ScenarioSlot}
    /\ WalkTree[ScenarioSlot].content = Estimates(500, 520)
    /\ WalkArgs.source = "new"

\* C10 as claimed: one Record with a throughput of 2.00 Mops/s
C10_TwoMops ==
    C10_Scenario =>
        /\ Len(results["A"]) = 1
        /\ results["A"][1].operation = "insert"
        /\ results["A"][1].size = "100"
        /\ results["A"][1].median_ns = 500
        /\ results["A"][1].throughput_pretty = "2.00 Mops/s"

\* C10 amended: one Record with operation insert, size 100, median_ns 500
\* and, the size being the operation count, a throughput of 200000000
\* operations per second, shown as 200.00 Mops/s.
C10_TwoHundredMops ==
    C10_Scenario =>
        /\ Len(results["A"]) = 1
        /\ results["A"][1].operation = "insert"
        /\ results["A"][1].size = "100"
        /\ results["A"][1].median_ns = 500
        /\ results["A"][1].throughput_ops_sec = "200000000.00"
        /\ results["A"][1].throughput_pretty = "200.00 Mops/s"

\* C10 witness: the scenario's walk has returned its Record
C10_Witness == C10_Scenario /\ Len(results["A"]) = 1

\* process_estimates_file, called alone on Given.file under the test
\* identity Given.test_name, has returned
Built == pc["A"] = "built"
Given == args["A"]
Calls == hist.calls

\* the second '/'-segment of the test identity, "N/A" when there is none
SizeOf(test_name) ==
    LET parts == Split(test_name) IN IF Len(parts) > 1 THEN parts[2] ELSE "N/A"

\* the operation count the size stands for: its integer value when it
\* consists of decimal digits, 1 otherwise
CountOf(size) == IF IsDigit(size) THEN IntOf(size) ELSE 1

\* every Record with median_ns > 0 carries count * 1e9 / median_ns, rounded
\* to 2 decimals, as its throughput_ops_sec
ThroughputFromCount ==
    \A i \in 1..Len(results["A"]) :
        LET r == results["A"][i]
        IN r.median_ns > 0 =>
              /\ r.size = SizeOf(Given.test_name)
              /\ r.throughput_ops_sec = Fmt2(Quot(CountOf(r.size), r.median_ns, 9))

\* C11 as claimed: the throughput is count * 1e9 / median_ns, and the count
\* handed to the throughput calculator is always at least 1
C11_CountAtLeastOne ==
    Built =>
        /\ ThroughputFromCount
        /\ \A i \in 1..Len(Calls) : Calls[i].n >= 1

\* C11 amended: the throughput is count * 1e9 / median_ns, where the count
\* handed to the throughput calculator is the integer value of a size made
\* of decimal digits and 1 otherwise; it is at least 1 except for a size of
\* value 0 ("0", "00"), where it is 0 and a Record with median_ns > 0
\* carries a throughput of 0, shown as "0.00 ops/s".
C11_CountFromSize ==
    Built =>
        /\ ThroughputFromCount
        /\ \A i \in 1..Len(Calls) :
              LET size == SizeOf(Given.test_name)
                  zero == IsDigit(size) /\ IntOf(size) = 0
              IN /\ Calls[i].n = CountOf(size)
                 /\ Calls[i].n >= 0
                 /\ Calls[i].n = 0 <=> zero
                 /\ zero => \A j \in 1..Len(results["A"]) :
                       results["A"][j].median_ns > 0 =>
                          /\ results["A"][j].throughput_ops_sec = "0.00"
                          /\ results["A"][j].throughput_pretty = "0.00 ops/s"

\* C11 witness: a Record was built for insert/0 from a median of 500 ns;
\* the calculator was handed the count 0
C11_Witness ==
    /\ Built
    /\ Given.test_name = "insert/0"
    /\ Len(results["A"]) = 1
    /\ results["A"][1].median_ns = 500
    /\ results["A"][1].throughput_ops_sec = "0.00"
    /\ Len(Calls) = 1 /\ Calls[1].n = 0

\* format_throughput, called alone on Given.ns and Given.n, has returned
Computed == pc["A"] = "computed"

\* the file gives a median of 0, or omits it
MedianZero(content) ==
    \/ "median" \notin DOMAIN content.f
    \/ "point_estimate" \notin DOMAIN content.f["median"].f
    \/ content.f["median"].f["point_estimate"] = JNum(0)

\* C12: for a time of 0 and any count the throughput calculator returns the
\* value 0 and the text "N/A"; a well-formed result file whose median is 0
\* or omitted still yields its Record, with throughput_ops_sec 0 and
\* throughput_pretty "N/A"; and "N/A" is the throughput text only when the
\* time is 0.
C12_ZeroGuard ==
    /\ Computed =>
          /\ Len(ret["A"]) = 1
          /\ Given.ns = 0 =>
                /\ ret["A"][1].ops.num = 0
                /\ ret["A"][1].pretty = "N/A"
          /\ ret["A"][1].pretty = "N/A" => Given.ns = 0
    /\ Built =>
          /\ (/\ Given.file # Absent
              /\ WellFormed(Given.file)
              /\ MedianZero(Given.file.content)) =>
                /\ Len(results["A"]) = 1
                /\ results["A"][1].median_ns = 0
                /\ results["A"][1].throughput_ops_sec = "0.00"
                /\ results["A"][1].throughput_pretty = "N/A"
          /\ \A i \in 1..Len(results["A"]) :
                results["A"][i].throughput_pretty = "N/A"
                    => results["A"][i].median_ns = 0

\* C12 witness: a Record was built for insert/100 from a file that omits the
\* median; its throughput is 0, shown as "N/A"
C12_Witness ==
    /\ Built
    /\ Given.test_name = "insert/100"
    /\ Given.file # Absent
    /\ Given.file.content.t = "obj"
    /\ "median" \notin DOMAIN Given.file.content.f
    /\ "mean" \in DOMAIN Given.file.content.f
    /\ Len(results["A"]) = 1
    /\ results["A"][1].throughput_ops_sec = "0.00"
    /\ results["A"][1].throughput_pretty = "N/A"

====
